---- MODULE Spec2Model ----
(***************************************************************************)
(* Job lifecycle controller of node-pg-jobs (lib/jobs.js).                 *)
(*                                                                         *)
(* Every asynchronous callback of lib/jobs.js is one action; the calls a   *)
(* callback makes synchronously (async.whilst's test, the iterator         *)
(* callback, finish, processed, ...) are operators on the record of the    *)
(* call that runs them, composed inside the action.  The Job Store         *)
(* (models/jobs) and the pg / pg-transaction primitives are not part of    *)
(* lib/jobs.js; they follow the Store contract of the specification.       *)
(***************************************************************************)
EXTENDS Integers, Sequences, FiniteSets

\* ---------------------------------------------------------------- bounds
MaxTime == 1000        \* the clock stops advancing past this many ms
TickStep == 500        \* granularity of the clock, in ms
MaxJobs == 1           \* at most this many jobs are ever created

\* ------------------------------------------------------------- constants
DefaultPollInterval == 1000   \* options.pollInterval || 1000

\* ------------------------------------------------------------ the callers
Loops == {"w1", "w2"}   \* controller instances, each calling Jobs.process once
Nows == {"n1"}          \* calls of Jobs.processNow
Creates == {"c1"}       \* calls of Jobs.create (the slot is reused)
Procs == Loops \cup Nows \cup Creates

\* JavaScript null / undefined for numbers (delays, timestamps)
NullVal == 0 - 1
UndefinedVal == 0 - 2
\* JavaScript null for errors, and the errors of the specification's taxonomy
NoErr == "null"
ConnectionError == "ConnectionError"
StoreError == "StoreError"
JobNotFoundError == "JobNotFoundError"
UserProcessingError == "UserProcessingError"

\* options hash of each instance (jobs.js:15); pollInterval may be left unset
options ==
  [p \in Procs |-> [pollInterval |-> IF p = "w2" THEN TickStep ELSE UndefinedVal]]

\* inputs of the callers
DataValues == {"d0"}                    \* jobData given to Jobs.create
NewDataValues == {"d1"}                 \* newJobData the processing function returns
DelayValues == {UndefinedVal, NullVal, 0, TickStep}   \* processIn the processing function returns
CreateDelays == {NullVal, 0}                      \* processIn given to Jobs.create
JobIds == 1..(MaxJobs + 1)              \* ids asked of processNow; MaxJobs+1 never exists

NoJob == [job_id |-> 0, data |-> "none"]     \* a falsy jobSnap
NoPend == [stamp |-> NullVal, written |-> FALSE, data |-> "none", due_at |-> NullVal]
NoResult == [newJobData |-> "none", processIn |-> UndefinedVal]
NoWrite == [data |-> "none", processIn |-> NullVal]
NoRow == [data |-> "none", due_at |-> NullVal, processed_at |-> NullVal]

VARIABLES
  shouldStillProcess,  \* jobs.js:5, module-level: shared by every instance
  clock,               \* current time, ms
  store,               \* committed rows of the Job Store: sequence indexed by job id
  w                    \* per call: its position and closure variables

vars == <<shouldStillProcess, clock, store, w>>

\* A call that has not been made yet.
InitCall ==
  [pc |-> "idle",
   conn |-> "none",        \* db / releaseClient: none, held, released
   released |-> 0,         \* times releaseClient() / cb() was called
   jobId |-> 0,            \* processNow's jobId argument
   lock |-> 0,             \* job id this session locked through obtainLock
   job |-> NoJob,          \* jobSnap of the cycle in flight
   tx |-> "none",          \* Transaction: none, open, committed, rolledback, failed
   pend |-> NoPend,        \* writes issued inside the open transaction
   result |-> NoResult,    \* (newJobData, processIn) given to processingComplete
   writeArgs |-> NoWrite,  \* arguments of the jobsModel.write call in flight
   err |-> NoErr,          \* err of the serviceJob callback (closure of txDone)
   wakeAt |-> 0,           \* expiry of the setTimeout timer
   trace |-> <<>>,         \* Store calls issued and events emitted, this iteration
   stops |-> 0,            \* stopProcess events emitted by this call
   dones |-> 0,            \* times done() was called
   doneErr |-> NoErr,      \* the argument of the last done()
   before |-> NoRow,       \* history: the job's row when the cycle claimed it
   began |-> 0,            \* history: the time the cycle began
   stopAt |-> "no"]        \* history: where the loop was when stopProcessing()
                           \*   was last called since the loop started

Init ==
  /\ shouldStillProcess = FALSE     \* undefined: falsy
  /\ clock = 0
  /\ store = <<>>
  /\ w = [p \in Procs |-> InitCall]

Emit(r, ev) == [r EXCEPT !.trace = Append(@, ev)]

\* ------------------------------------------------ the Job Store contract
\* (models/jobs is outside lib/jobs.js: section 6 of the specification)

Exists(id) == id \in DOMAIN store

\* write(): due_at is computed from the delay; a null delay leaves the job inactive
DueAt(processIn, t) == IF processIn = NullVal THEN NullVal ELSE t + processIn

\* a due job: due_at is set and has passed
Due(id) == Exists(id) /\ store[id].due_at # NullVal /\ store[id].due_at <= clock

\* lock_state: held by a session for as long as its transaction on the claimed job
\* is in flight, or from obtainLock until unlock
LockedBy(id) ==
  {p \in Procs : w[p].lock = id \/ (w[p].tx = "open" /\ w[p].job.job_id = id)}

Locked(id) == LockedBy(id) # {}

\* nextToProcess(): the jobs it may select and lock
Claimable == {id \in DOMAIN store : Due(id) /\ ~Locked(id)}

Snapshot(id) == [job_id |-> id, data |-> store[id].data]

\* write() with a null id: a new row, its id assigned by the Store
InsertJob(data, processIn) ==
  Append(store, [data |-> data, due_at |-> DueAt(processIn, clock),
                 processed_at |-> NullVal])

\* commit: the transaction's setProcessedNow and write become durable
ApplyPending(id, pend) ==
  [store EXCEPT ![id] =
     [data |-> IF pend.written THEN pend.data ELSE @.data,
      due_at |-> IF pend.written THEN pend.due_at ELSE @.due_at,
      processed_at |-> IF pend.stamp # NullVal THEN pend.stamp ELSE @.processed_at]]

\* ------------------------------------------- lib/jobs.js: callback chains

\* (mutant) options.pollInterval without the default
PollDelayNoDefault(p) ==
  IF options[p].pollInterval \in {UndefinedVal, NullVal} THEN 0
  ELSE options[p].pollInterval

\* options.pollInterval || 1000
PollDelay(p) ==
  IF options[p].pollInterval \in {UndefinedVal, NullVal, 0}
  THEN DefaultPollInterval
  ELSE options[p].pollInterval

\* (mutant) finish without releaseClient()
FinishNoRelease(r, err) ==
  [r EXCEPT !.stops = @ + 1,
            !.dones = @ + 1, !.doneErr = NoErr,
            !.trace = @ \o <<"stopProcess", "done">>,
            !.pc = "done"]

\* finish(err) of Jobs.process: releaseClient(); emit('stopProcess'); done()
Finish(r, err) ==
  [r EXCEPT !.conn = "released", !.released = @ + 1,
            !.stops = @ + 1,
            !.dones = @ + 1, !.doneErr = NoErr,
            !.trace = @ \o <<"releaseClient", "stopProcess", "done">>,
            !.pc = "done"]

\* iterator(callback): setImmediate(...)
Iterator(r) == [r EXCEPT !.pc = "immediate"]

\* (mutant) the loop does not look at shouldStillProcess
WhilstIgnoresStop(r) == Iterator(r)

\* async.whilst(Jobs.continueProcessing, iterator, finish)
Whilst(r) == IF shouldStillProcess THEN Iterator(r) ELSE Finish(r, NoErr)

\* the callback async.whilst hands to iterator
WhilstCallback(r, err) == IF err # NoErr THEN Finish(r, err) ELSE Whilst(r)

\* processed(err) of Jobs.processNow: unlock; releaseClient(); done(err)
Processed(r, err) ==
  [r EXCEPT !.lock = 0,
            !.conn = "released", !.released = @ + 1,
            !.dones = @ + 1, !.doneErr = err,
            !.trace = @ \o <<"unlock", "releaseClient", "done">>,
            !.pc = "done"]

\* the `callback` argument of getJobProcessor(now, db, processFunction, callback)
Callback(p, r, err) ==
  IF p \in Nows THEN Processed(r, err) ELSE WhilstCallback(r, err)

\* (mutant) processJob without tx.begin(): the cycle runs outside any transaction
ProcessJobNoBegin(r, jobSnap) ==
  [r EXCEPT !.job = jobSnap, !.tx = "none", !.pend = NoPend,
            !.result = NoResult, !.writeArgs = NoWrite, !.err = NoErr,
            !.before = store[jobSnap.job_id], !.began = clock,
            !.trace = @ \o <<"processFunction">>,
            !.pc = "processing"]

\* (mutant) the cycle runs holding neither a transaction nor processNow's lock
ProcessJobHoldsNoLock(r, jobSnap) ==
  [r EXCEPT !.job = jobSnap, !.tx = "none", !.lock = 0, !.pend = NoPend,
            !.result = NoResult, !.writeArgs = NoWrite, !.err = NoErr,
            !.before = store[jobSnap.job_id], !.began = clock,
            !.trace = @ \o <<"begin", "processFunction">>,
            !.pc = "processing"]

\* processJob(jobSnap) up to the call of the processing function:
\* new Transaction(db); tx.begin(); serviceJob -> userJobIterator(...)
ProcessJob(r, jobSnap) ==
  [r EXCEPT !.job = jobSnap, !.tx = "open", !.pend = NoPend,
            !.result = NoResult, !.writeArgs = NoWrite, !.err = NoErr,
            !.before = store[jobSnap.job_id], !.began = clock,
            !.trace = @ \o <<"begin", "processFunction">>,
            !.pc = "processing"]

\* (mutant) a missing job reported to processNow's caller without an error
GetJobProcessorSilent(p, r, err, jobSnap) ==
  IF err # NoErr THEN Callback(p, r, err)
  ELSE IF jobSnap = NoJob
       THEN IF p \in Nows
            THEN Callback(p, r, NoErr)
            ELSE [Emit(r, "drain") EXCEPT !.pc = "sleeping",
                                          !.wakeAt = clock + PollDelay(p)]
       ELSE ProcessJob(r, jobSnap)

\* the function getJobProcessor returns: function(err, jobSnap)
GetJobProcessor(p, r, err, jobSnap) ==
  IF err # NoErr THEN Callback(p, r, err)
  ELSE IF jobSnap = NoJob
       THEN IF p \in Nows
            THEN Callback(p, r, JobNotFoundError)
            ELSE [Emit(r, "drain") EXCEPT !.pc = "sleeping",
                                          !.wakeAt = clock + PollDelay(p)]
       ELSE ProcessJob(r, jobSnap)

\* (mutant) the callback is called as soon as commit / rollback is issued,
\* without waiting for txDone
ServiceCallbackEarly(p, r, err) ==
  Callback(p,
           [Emit(r, IF err # NoErr THEN "rollback" ELSE "commit") EXCEPT !.err = err],
           err)

\* (mutant) the commit notification is emitted when commit / rollback is issued
ServiceCallbackNotifies(p, r, err) ==
  [Emit(Emit(r, IF err # NoErr THEN "rollback" ELSE "commit"),
        IF p \in Nows THEN "processNowCommitted" ELSE "processCommitted")
     EXCEPT !.err = err,
            !.pc = IF err # NoErr THEN "rollingback" ELSE "committing"]

\* the callback processJob gives serviceJob: tx.rollback(txDone) or tx.commit(txDone)
ServiceCallback(p, r, err) ==
  IF err # NoErr
  THEN [Emit(r, "rollback") EXCEPT !.err = err, !.pc = "rollingback"]
  ELSE [Emit(r, "commit") EXCEPT !.err = err, !.pc = "committing"]

\* (mutant) updateJob writes the snapshot's data back instead of newJobData
UpdateJobOldData(p, r, newJobData, processIn) ==
  [Emit(r, "write") EXCEPT
     !.writeArgs = [data |-> r.job.data,
                    processIn |-> IF processIn = UndefinedVal THEN NullVal ELSE processIn],
     !.pc = "writing"]

\* (mutant) updateJob without `if (processIn === undefined) processIn = null`
UpdateJobKeepsUndefined(p, r, newJobData, processIn) ==
  [Emit(r, "write") EXCEPT
     !.writeArgs = [data |-> newJobData, processIn |-> processIn],
     !.pc = "writing"]

\* updateJob(db, jobSnapshot, newJobData, processIn, cb) up to jobsModel.write
UpdateJob(p, r, newJobData, processIn) ==
  [Emit(r, "write") EXCEPT
     !.writeArgs = [data |-> newJobData,
                    processIn |-> IF processIn = UndefinedVal THEN NullVal ELSE processIn],
     !.pc = "writing"]

\* (mutant) the iterator's callback is called when commit is issued, without
\* waiting for the commit to be answered
UpdateCompleteNoWait(p, r, err) ==
  IF err # NoErr THEN ServiceCallback(p, r, err)
  ELSE Callback(p, Emit(Emit(r, "jobUpdated"), "commit"), NoErr)

\* complete(err) of updateJob
UpdateComplete(p, r, err) ==
  IF err # NoErr THEN ServiceCallback(p, r, err)
  ELSE ServiceCallback(p, Emit(r, "jobUpdated"), NoErr)

\* (mutant) processingComplete stamps processed_at before it looks at err
ProcessingCompleteStampFirst(p, r, err, newJobData, processIn) ==
  IF err # NoErr
  THEN ServiceCallback(p, [Emit(r, "setProcessedNow") EXCEPT !.pend.stamp = clock], err)
  ELSE UpdateJob(p, [Emit(r, "setProcessedNow") EXCEPT !.pend.stamp = clock],
                 newJobData, processIn)

\* (mutant) processingComplete commits after the stamp, without the rewrite
ProcessingCompleteNoRewrite(p, r, err, newJobData, processIn) ==
  IF err # NoErr
  THEN ServiceCallback(p, r, err)
  ELSE ServiceCallback(p, [Emit(r, "setProcessedNow") EXCEPT !.pend.stamp = clock], NoErr)

\* processingComplete(err, newJobData, processIn) of serviceJob
ProcessingComplete(p, r, err, newJobData, processIn) ==
  IF err # NoErr
  THEN ServiceCallback(p, r, err)
  ELSE UpdateJob(p, [Emit(r, "setProcessedNow") EXCEPT !.pend.stamp = clock],
                 newJobData, processIn)

\* the processing function calls processingComplete(err, newJobData, processIn)
UserCallsBack(p, r, err, newJobData, processIn) ==
  ProcessingComplete(p,
    [r EXCEPT !.result = [newJobData |-> newJobData, processIn |-> processIn]],
    err, newJobData, processIn)

\* processJob has returned and its transaction is resolved: tx, jobSnap and the
\* arguments of processingComplete are no longer referenced
EndCycle(r) ==
  [r EXCEPT !.job = NoJob, !.pend = NoPend, !.result = NoResult, !.writeArgs = NoWrite,
            !.before = NoRow, !.began = 0]

\* (mutant) txDone emits the commit notification only for a committed cycle
TxDoneSilentOnRollback(p, r) ==
  Callback(p,
           IF r.err # NoErr THEN EndCycle(r)
           ELSE Emit(EndCycle(r),
                     IF p \in Nows THEN "processNowCommitted" ELSE "processCommitted"),
           r.err)

\* txDone(): emit(now ? 'processNowCommitted' : 'processCommitted'); callback(err)
TxDone(p, r) ==
  Callback(p,
           Emit(EndCycle(r),
                IF p \in Nows THEN "processNowCommitted" ELSE "processCommitted"),
           r.err)

\* -------------------------------------------------------------- actions

\* a service cycle is in flight: the processing function was invoked and the
\* transaction is not resolved yet
InCycle(p) == w[p].pc \in {"processing", "writing", "committing", "rollingback"}

Set(p, r) == w' = [w EXCEPT ![p] = r]

\* Jobs.process(processFunction, done): shouldStillProcess = true; pg.connect(...)
Process(l) ==
  /\ w[l].pc = "idle"
  /\ shouldStillProcess' = TRUE
  /\ Set(l, [w[l] EXCEPT !.pc = "connecting", !.stopAt = "no"])
  /\ UNCHANGED <<clock, store>>

\* Jobs.stopProcessing(), on any instance
StopProcessing ==
  /\ shouldStillProcess' = FALSE
  /\ w' = [p \in Procs |->
            IF p \in Loops /\ w[p].pc \notin {"idle", "done"}
            THEN [w[p] EXCEPT !.stopAt = IF InCycle(p) THEN "cycle" ELSE "outside"]
            ELSE w[p]]
  /\ UNCHANGED <<clock, store>>

\* connected(err, db, releaseClient) of Jobs.process
Connected(l) ==
  /\ w[l].pc = "connecting"
  /\ \/ Set(l, [w[l] EXCEPT !.pc = "done", !.dones = @ + 1,       \* done(err)
                           !.doneErr = ConnectionError,
                           !.trace = Append(@, "done")])
     \/ Set(l, Whilst([w[l] EXCEPT !.conn = "held"]))
  /\ UNCHANGED <<shouldStillProcess, clock, store>>

\* the setImmediate callback of iterator: emit('maybeServiceJob'); nextToProcess
MaybeServiceJob(l) ==
  /\ w[l].pc = "immediate"
  /\ Set(l, [w[l] EXCEPT !.pc = "query",
                         !.job = NoJob, !.tx = "none", !.pend = NoPend,
                         !.result = NoResult, !.writeArgs = NoWrite, !.err = NoErr,
                         !.wakeAt = 0, !.before = NoRow, !.began = 0,
                         !.trace = <<"maybeServiceJob", "nextToProcess">>])
  /\ UNCHANGED <<shouldStillProcess, clock, store>>

\* jobsModel.nextToProcess answers
NextToProcess(l) ==
  /\ w[l].pc = "query"
  /\ \/ Set(l, GetJobProcessor(l, w[l], StoreError, NoJob))
     \/ /\ Claimable = {}
        /\ Set(l, GetJobProcessor(l, w[l], NoErr, NoJob))
     \/ \E id \in Claimable : Set(l, GetJobProcessor(l, w[l], NoErr, Snapshot(id)))
  /\ UNCHANGED <<shouldStillProcess, clock, store>>

\* the setTimeout timer of an empty poll expires: callback()
TimerExpired(l) ==
  /\ w[l].pc = "sleeping"
  /\ clock >= w[l].wakeAt
  /\ Set(l, WhilstCallback(w[l], NoErr))
  /\ UNCHANGED <<shouldStillProcess, clock, store>>

\* the processing function calls its completion callback
UserDone(p) ==
  /\ w[p].pc = "processing"
  /\ \/ Set(p, UserCallsBack(p, w[p], UserProcessingError, "none", UndefinedVal))
     \/ \E d \in NewDataValues, t \in DelayValues :
          Set(p, UserCallsBack(p, w[p], NoErr, d, t))
  /\ UNCHANGED <<shouldStillProcess, clock, store>>

\* jobsModel.write of updateJob answers, inside the transaction
WriteDone(p) ==
  /\ w[p].pc = "writing"
  /\ \/ Set(p, UpdateComplete(p, w[p], StoreError))
     \/ Set(p, UpdateComplete(p,
                  [w[p] EXCEPT !.pend.written = TRUE,
                               !.pend.data = w[p].writeArgs.data,
                               !.pend.due_at = DueAt(w[p].writeArgs.processIn, clock)],
                  NoErr))
  /\ UNCHANGED <<shouldStillProcess, clock, store>>

\* tx.commit(txDone) answers: the commit took effect, or it failed
Committed(p) ==
  /\ w[p].pc = "committing"
  /\ \/ /\ store' = ApplyPending(w[p].job.job_id, w[p].pend)
        /\ Set(p, TxDone(p, [w[p] EXCEPT !.tx = "committed"]))
     \/ /\ store' = store
        /\ Set(p, TxDone(p, [w[p] EXCEPT !.tx = "failed"]))
  /\ UNCHANGED <<shouldStillProcess, clock>>

\* tx.rollback(txDone) answers
RolledBack(p) ==
  /\ w[p].pc = "rollingback"
  /\ Set(p, TxDone(p, [w[p] EXCEPT !.tx = "rolledback"]))
  /\ UNCHANGED <<shouldStillProcess, clock, store>>

\* Jobs.processNow(jobId, processFunction, done): pg.connect(...)
ProcessNow(n) ==
  /\ w[n].pc = "idle"
  /\ \E id \in JobIds : Set(n, [w[n] EXCEPT !.pc = "connecting", !.jobId = id])
  /\ UNCHANGED <<shouldStillProcess, clock, store>>

\* connected(err, db, releaseClient) of Jobs.processNow
NowConnected(n) ==
  /\ w[n].pc = "connecting"
  /\ \/ Set(n, [w[n] EXCEPT !.pc = "done", !.dones = @ + 1,       \* done(err)
                           !.doneErr = ConnectionError,
                           !.trace = Append(@, "done")])
     \/ Set(n, [w[n] EXCEPT !.conn = "held", !.pc = "locking",
                           !.trace = Append(@, "obtainLock")])
  /\ UNCHANGED <<shouldStillProcess, clock, store>>

\* gotLock(err): jobsModel.obtainLock answers.  It blocks while another session
\* holds the job, or fails; a missing row is reported here or by getDataForJob.
GotLock(n) ==
  /\ w[n].pc = "locking"
  /\ \/ /\ \E e \in IF Exists(w[n].jobId) THEN {StoreError}
                     ELSE {StoreError, JobNotFoundError} :
             Set(n, [w[n] EXCEPT !.pc = "done", !.dones = @ + 1,    \* done(err)
                               !.doneErr = e, !.trace = Append(@, "done")])
     \/ /\ ~Locked(w[n].jobId)
        /\ Set(n, [w[n] EXCEPT !.lock = w[n].jobId, !.pc = "fetching",
                              !.trace = Append(@, "getDataForJob")])
  /\ UNCHANGED <<shouldStillProcess, clock, store>>

\* gotData: jobsModel.getDataForJob answers
GotData(n) ==
  /\ w[n].pc = "fetching"
  /\ \/ Set(n, GetJobProcessor(n, w[n], StoreError, NoJob))
     \/ /\ ~Exists(w[n].jobId)
        /\ Set(n, GetJobProcessor(n, w[n], NoErr, NoJob))
     \/ /\ Exists(w[n].jobId)
        /\ Set(n, GetJobProcessor(n, w[n], NoErr, Snapshot(w[n].jobId)))
  /\ UNCHANGED <<shouldStillProcess, clock, store>>

\* Jobs.create(jobData, processIn, done): pg.connect(...)
Create(c) ==
  /\ w[c].pc \in {"idle", "done"}
  /\ Len(store) < MaxJobs
  /\ \E d \in DataValues, t \in CreateDelays :
       Set(c, [InitCall EXCEPT !.pc = "connecting",
                              !.writeArgs = [data |-> d, processIn |-> t]])
  /\ UNCHANGED <<shouldStillProcess, clock, store>>

\* (mutant) complete without cb(): the client is not returned to the pool
CompleteNoRelease(r, err, jobId) ==
  [r EXCEPT !.dones = @ + 1, !.doneErr = err, !.jobId = jobId,
            !.writeArgs = NoWrite,
            !.trace = @ \o <<"done">>,
            !.pc = "done"]

\* complete(err, jobId) of Jobs.create: cb(); done(err, jobId)
Complete(r, err, jobId) ==
  [r EXCEPT !.conn = IF @ = "held" THEN "released" ELSE @,
            !.released = @ + 1,
            !.dones = @ + 1, !.doneErr = err, !.jobId = jobId,
            !.writeArgs = NoWrite,
            !.trace = @ \o <<"releaseClient", "done">>,
            !.pc = "done"]

\* connected(err, db, cb) of Jobs.create
CreateConnected(c) ==
  /\ w[c].pc = "connecting"
  /\ \/ Set(c, Complete(w[c], ConnectionError, 0))
     \/ Set(c, [w[c] EXCEPT !.conn = "held", !.pc = "writing",
                           !.trace = Append(@, "write")])
  /\ UNCHANGED <<shouldStillProcess, clock, store>>

\* jobsModel.write(db, null, processIn, jobData, complete) answers
CreateWritten(c) ==
  /\ w[c].pc = "writing"
  /\ \/ /\ store' = store
        /\ Set(c, Complete(w[c], StoreError, 0))
     \/ /\ store' = InsertJob(w[c].writeArgs.data, w[c].writeArgs.processIn)
        /\ Set(c, Complete(w[c], NoErr, Len(store) + 1))
  /\ UNCHANGED <<shouldStillProcess, clock>>

\* time passes
Tick ==
  /\ clock + TickStep <= MaxTime
  /\ clock' = clock + TickStep
  /\ UNCHANGED <<shouldStillProcess, store, w>>

\* the steps of a polling loop
LoopStep(l) ==
  \/ Process(l)
  \/ Connected(l)
  \/ MaybeServiceJob(l)
  \/ NextToProcess(l)
  \/ TimerExpired(l)

\* the steps of a service cycle, shared by both entry points
CycleStep(p) ==
  \/ UserDone(p)
  \/ WriteDone(p)
  \/ Committed(p)
  \/ RolledBack(p)

\* the steps of a processNow call
NowStep(n) ==
  \/ ProcessNow(n)
  \/ NowConnected(n)
  \/ GotLock(n)
  \/ GotData(n)

\* the steps of a create call
CreateStep(c) ==
  \/ Create(c)
  \/ CreateConnected(c)
  \/ CreateWritten(c)

\* Two controller instances polling the same Store.
Next ==
  \/ \E l \in Loops : LoopStep(l) \/ CycleStep(l)
  \/ \E c \in Creates : CreateStep(c)
  \/ StopProcessing
  \/ Tick

Spec == Init /\ [][Next]_vars

\* One polling instance and processNow calls on the same Store.
NextNow ==
  \/ LoopStep("w1") \/ CycleStep("w1")
  \/ \E n \in Nows : NowStep(n) \/ CycleStep(n)
  \/ \E c \in Creates : CreateStep(c)
  \/ StopProcessing
  \/ Tick

SpecNow == Init /\ [][NextNow]_vars

\* ================================================================ claims

Cyclers == Loops \cup Nows

\* the last n entries of a trace
LastN(t, n) == IF Len(t) <= n THEN t ELSE SubSeq(t, Len(t) - n + 1, Len(t))

Has(t, ev) == \E i \in 1..Len(t) : t[i] = ev

Count(t, ev) == Cardinality({i \in 1..Len(t) : t[i] = ev})

\* ev1 occurs in t, and before every occurrence of ev2
Before(t, ev1, ev2) ==
  \A j \in 1..Len(t) : t[j] = ev2 => \E i \in 1..(j - 1) : t[i] = ev1

\* C1: two controller instances polling the same Store are never both inside a
\* service cycle (processing function invoked, transaction unresolved) for the
\* same job: one claims it, the other gets no job.
C1_AtMostOneService ==
  \A p \in Loops : \A q \in Loops \ {p} :
    InCycle(p) /\ InCycle(q) => w[p].job.job_id # w[q].job.job_id

\* w1 polled after w2's cycle on the job began, while the job was due and w2 was
\* still servicing it, and found no job
C1_Witness ==
  /\ InCycle("w2") /\ w["w1"].pc = "sleeping"
  /\ w["w1"].wakeAt - DefaultPollInterval > w["w2"].began
  /\ store[w["w2"].job.job_id].due_at # NullVal
  /\ store[w["w2"].job.job_id].due_at <= w["w1"].wakeAt - DefaultPollInterval

\* C2: when the processing function reports an error, only the rollback is issued:
\* no stamp and no rewrite; the cycle ends rolled back with the job's row as it was
\* before the cycle; and processed_at changes only in the commit of a cycle whose
\* processing function reported success.
C2_ErrorLeavesJobUntouched ==
  /\ [](\A p \in Cyclers :
         InCycle(p) /\ w[p].err = UserProcessingError =>
           /\ w[p].pc = "rollingback"
           /\ w[p].pend = NoPend
           /\ ~Has(w[p].trace, "setProcessedNow") /\ ~Has(w[p].trace, "write")
           /\ store[w[p].job.job_id] = w[p].before)
  /\ [][\A p \in Cyclers :
         InCycle(p) /\ w[p].err = UserProcessingError /\ ~InCycle(p)' =>
           /\ w'[p].tx = "rolledback"
           /\ store'[w[p].job.job_id] = w[p].before]_vars
  /\ [][\A id \in DOMAIN store :
         store'[id].processed_at # store[id].processed_at =>
           \E p \in Cyclers :
             /\ w[p].pc = "committing" /\ w[p].job.job_id = id
             /\ w[p].err = NoErr /\ w[p].result.newJobData \in NewDataValues
             /\ w'[p].tx = "committed"]_vars

\* a cycle of each entry point ended rolled back after a processing error, on a job
\* that had been serviced before
C2_Witness ==
  /\ w["w1"].tx = "rolledback" /\ w["w1"].err = UserProcessingError
  /\ w["n1"].tx = "rolledback" /\ w["n1"].err = UserProcessingError
  /\ store[1].processed_at # NullVal

\* C3: when the processing function reports success with (newData, nextDelay), the
\* stamp, the rewrite and the commit are issued in that order, and the committed row
\* has data = newData, due_at = null for an undefined or null nextDelay and the
\* time of the rewrite plus nextDelay otherwise, and processed_at within the cycle.
C3_SuccessCommitsNewValues ==
  [][\A p \in Cyclers :
       w[p].pc = "committing" /\ w'[p].tx = "committed" =>
         LET row == store'[w[p].job.job_id]
             res == w[p].result
         IN /\ LastN(w[p].trace, 4) = <<"setProcessedNow", "write", "jobUpdated", "commit">>
            /\ row.data = res.newJobData
            /\ IF res.processIn \in {UndefinedVal, NullVal}
               THEN row.due_at = NullVal
               ELSE row.due_at - res.processIn \in w[p].began .. clock
            /\ row.processed_at \in w[p].began .. clock]_vars

\* a cycle begun after time 0 committed new data and a later due time
C3_Witness ==
  \E p \in Cyclers :
    /\ w[p].tx = "committed" /\ Has(w[p].trace, "jobUpdated")
    /\ store[1].data = "d1" /\ store[1].processed_at > 0
    /\ store[1].due_at > store[1].processed_at

\* C4: a processing error reported while shouldStillProcess is true leaves the
\* polling loop running: the next iteration is scheduled, no stopProcess is
\* emitted and done is not called.
C4_LoopSurvivesProcessingError ==
  [][\A l \in Loops :
       /\ w[l].pc = "rollingback" /\ w[l].err = UserProcessingError
       /\ shouldStillProcess /\ w'[l].pc # "rollingback"
       => /\ w'[l].pc = "immediate"
          /\ w'[l].stops = w[l].stops
          /\ w'[l].dones = w[l].dones]_vars

\* C5: stopProcessing() during a service cycle leaves the cycle as it is; a cycle
\* ends only with its transaction resolved and processCommitted emitted; and
\* stopProcess and done come only after that, with no cycle in flight.
C5_StopIsNotPreemptive ==
  /\ [][\A l \in Loops :
         InCycle(l) /\ w'[l].stopAt # w[l].stopAt =>
           /\ w'[l].stopAt = "cycle"
           /\ [w'[l] EXCEPT !.stopAt = w[l].stopAt] = w[l]
           /\ store' = store]_vars
  /\ [][\A l \in Loops :
         InCycle(l) /\ ~InCycle(l)' =>
           /\ w'[l].tx \in {"committed", "rolledback", "failed"}
           /\ Count(w'[l].trace, "processCommitted") = 1]_vars
  /\ [](\A l \in Loops :
         w[l].stops > 0 =>
           /\ ~InCycle(l) /\ w[l].tx # "open"
           /\ Has(w[l].trace, "begin") =>
                /\ Before(w[l].trace, "processCommitted", "stopProcess")
                /\ Before(w[l].trace, "processCommitted", "done"))

\* w1, the only loop started, was asked to stop during a cycle; the cycle committed
\* and the loop then stopped
C5_Witness ==
  /\ w["w2"].pc = "idle"
  /\ w["w1"].stopAt = "cycle" /\ w["w1"].tx = "committed"
  /\ w["w1"].stops = 1 /\ w["w1"].dones = 1
  /\ store[1].processed_at # NullVal

\* C6: once stopProcessing() has been called on a running loop, the loop starts no
\* new iteration.
C6_StoppedLoopStartsNoIteration ==
  [][\A l \in Loops :
       w[l].stopAt # "no" /\ w[l].pc # "immediate" => w'[l].pc # "immediate"]_vars

\* the poll interval the options of an instance ask for, 1000 ms by default
ConfiguredInterval(l) ==
  IF options[l].pollInterval > 0 THEN options[l].pollInterval ELSE 1000

\* C7: a poll that finds no due job emits one drain and arms a timer of the
\* configured interval (default 1000 ms); the loop leaves the sleep only when the
\* timer has expired, and then goes on to its next iteration unless it was asked
\* to stop; a query is issued only at the top of an iteration.
C7_IdleBackoff ==
  /\ [](\A l \in Loops :
         w[l].pc = "sleeping" =>
           /\ w[l].trace = <<"maybeServiceJob", "nextToProcess", "drain">>
           /\ w[l].stops = 0 /\ w[l].dones = 0 /\ w[l].conn = "held")
  /\ [][\A l \in Loops :
         w[l].pc = "query" /\ w'[l].pc # "query" /\ Claimable = {} =>
           \/ w'[l].pc = "sleeping" /\ w'[l].wakeAt = clock + ConfiguredInterval(l)
           \/ w'[l].pc = "done" /\ ~Has(w'[l].trace, "drain")]_vars
  /\ [][\A l \in Loops :
         w[l].pc = "sleeping" /\ w'[l].pc # "sleeping" =>
           /\ clock >= w[l].wakeAt
           /\ shouldStillProcess => w'[l].pc = "immediate" /\ w'[l].stops = 0]_vars
  /\ [][\A l \in Loops :
         w'[l].pc = "query" /\ w[l].pc # "query" => w[l].pc = "immediate"]_vars

\* w1, on the default interval, found no job, slept and went on to a next iteration
C7_Witness ==
  /\ w["w1"].pc = "immediate"
  /\ w["w1"].trace = <<"maybeServiceJob", "nextToProcess", "drain">>
  /\ clock >= 1000

\* C8: a polling session releases its connection exactly once when it ends, on
\* every exit path, and never before: a released connection means the loop is over
\* with no cycle in flight, and a loop that is over holds no connection.
C8_ConnectionReleasedOnce ==
  \A l \in Loops :
    /\ w[l].released <= 1
    /\ w[l].released = 1 <=> w[l].conn = "released"
    /\ w[l].conn = "released" => w[l].pc = "done" /\ w[l].tx # "open"
    /\ w[l].pc = "done" => w[l].conn # "held"
    /\ w[l].pc = "done" /\ w[l].conn = "none" => w[l].doneErr = ConnectionError

\* w1 ended on a processing error and w2 on a Store error, each with its connection
\* released once
C8_Witness ==
  /\ w["w1"].pc = "done" /\ w["w1"].released = 1
  /\ w["w1"].err = UserProcessingError /\ w["w1"].tx = "rolledback"
  /\ w["w2"].pc = "done" /\ w["w2"].released = 1
  /\ w["w2"].trace =
       <<"maybeServiceJob", "nextToProcess", "releaseClient", "stopProcess", "done">>

\* C9: when done is called, a processNow call that acquired a connection has
\* released it once and holds no lock.
C9_ProcessNowAlwaysReleases ==
  \A n \in Nows :
    w[n].dones > 0 /\ w[n].conn # "none" =>
      w[n].released = 1 /\ w[n].conn = "released" /\ w[n].lock = 0

\* C10: processNow on an id with no row calls done once, with an error (the
\* job-not-found error unless the connection or a Store call failed), and neither
\* invokes the processing function, nor opens a transaction, nor emits jobUpdated
\* or processNowCommitted.
C10_MissingJobIsAnError ==
  \A n \in Nows :
    w[n].pc # "idle" /\ ~Exists(w[n].jobId) =>
      /\ w[n].pc \in {"connecting", "locking", "fetching", "done"}
      /\ w[n].dones = (IF w[n].pc = "done" THEN 1 ELSE 0)
      /\ w[n].pc = "done" =>
           w[n].doneErr \in {JobNotFoundError, ConnectionError, StoreError}
      /\ w[n].tx = "none"
      /\ \A ev \in {"begin", "processFunction", "jobUpdated", "processNowCommitted"} :
           ~Has(w[n].trace, ev)

\* the lock on a missing id was granted, the data lookup found no row, and done got
\* the job-not-found error
C10_Witness ==
  /\ w["n1"].pc = "done" /\ ~Exists(w["n1"].jobId)
  /\ w["n1"].trace = <<"obtainLock", "getDataForJob", "unlock", "releaseClient", "done">>
  /\ w["n1"].doneErr = JobNotFoundError


\* C11: a polling cycle whose processing function reports success with a null or
\* omitted delay commits with one jobUpdated and one processCommitted and leaves
\* the job inactive (due_at = null); an inactive job stays inactive, no polling
\* cycle runs on it, and a poll that finds only inactive jobs emits drain and
\* sleeps (or ends the loop, when the query itself fails).
C11_NullDelayRetiresJob ==
  /\ [][\A l \in Loops :
         /\ w[l].pc = "committing" /\ w'[l].tx = "committed"
         /\ w[l].result.processIn \in {UndefinedVal, NullVal}
         => /\ Count(w'[l].trace, "jobUpdated") = 1
            /\ Count(w'[l].trace, "processCommitted") = 1
            /\ store'[w[l].job.job_id].due_at = NullVal]_vars
  /\ [][\A id \in DOMAIN store :
         store[id].due_at = NullVal => store'[id].due_at = NullVal]_vars
  /\ [](\A l \in Loops : InCycle(l) => store[w[l].job.job_id].due_at # NullVal)
  /\ [][\A l \in Loops :
         /\ w[l].pc = "query" /\ w'[l].pc # "query"
         /\ \A id \in DOMAIN store : store[id].due_at = NullVal
         => \/ /\ w'[l].pc = "sleeping"
               /\ w'[l].trace = <<"maybeServiceJob", "nextToProcess", "drain">>
            \/ w'[l].pc = "done" /\ ~Has(w'[l].trace, "begin")]_vars

\* w1, the only loop started, serviced the job, left it inactive, and its next
\* poll found nothing
C11_Witness ==
  /\ w["w2"].pc = "idle" /\ Exists(1)
  /\ store[1].processed_at # NullVal /\ store[1].due_at = NullVal
  /\ w["w1"].pc = "sleeping"
  /\ w["w1"].trace = <<"maybeServiceJob", "nextToProcess", "drain">>


\* C12: a polling loop that ended because the connection could not be acquired, or
\* because nextToProcess or the rewrite failed, has called done with that error.
C12_LoopErrorsReachOnStop ==
  \A l \in Loops :
    w[l].pc = "done" =>
      /\ w[l].conn = "none" => w[l].doneErr = ConnectionError
      /\ w[l].trace = <<"maybeServiceJob", "nextToProcess",
                        "releaseClient", "stopProcess", "done">>
           /\ w[l].stopAt = "no" => w[l].doneErr = StoreError
      /\ w[l].err = StoreError => w[l].doneErr = StoreError


\* the commit notification of an entry point
CommitEvent(p) == IF p \in Nows THEN "processNowCommitted" ELSE "processCommitted"

\* C13 (as stated): in a successful cycle, jobUpdated and the commit notification
\* are emitted only once the commit call has completed.
C13_NotificationsAfterCommit ==
  \A p \in Cyclers :
    /\ w[p].err = NoErr
    /\ Has(w[p].trace, "jobUpdated") \/ Has(w[p].trace, CommitEvent(p))
    => w[p].tx \in {"committed", "failed"}

\* C13 (amended): in a successful cycle the commit notification is emitted only
\* once the commit call has completed; jobUpdated is emitted earlier, when the
\* rewrite has succeeded inside the open transaction, before commit is issued.
C13_CommitNotificationAfterCommit ==
  /\ [](\A p \in Cyclers :
         w[p].err = NoErr /\ Has(w[p].trace, CommitEvent(p)) =>
           /\ w[p].tx \in {"committed", "failed"}
           /\ Before(w[p].trace, "commit", CommitEvent(p)))
  /\ [](\A p \in Cyclers :
         Has(w[p].trace, "jobUpdated") =>
           /\ Before(w[p].trace, "write", "jobUpdated")
           /\ Before(w[p].trace, "jobUpdated", "commit")
           /\ Before(w[p].trace, "jobUpdated", CommitEvent(p)))
  /\ [][\A p \in Cyclers :
         Has(w'[p].trace, "jobUpdated") /\ ~Has(w[p].trace, "jobUpdated") =>
           /\ w[p].pc = "writing" /\ w'[p].pc = "committing"
           /\ w'[p].tx = "open" /\ w'[p].pend.written
           /\ store' = store]_vars

\* processNow's cycle has committed and emitted processNowCommitted; the loop's
\* later cycle has emitted jobUpdated and waits for its commit to be answered
C13_Witness ==
  /\ w["n1"].tx = "committed" /\ Has(w["n1"].trace, "processNowCommitted")
  /\ w["w1"].pc = "committing" /\ w["w1"].tx = "open"
  /\ Has(w["w1"].trace, "jobUpdated")


\* C14: a processNow call and a polling loop are never both inside a service cycle
\* on the same job; processNow holds its lock on the job for the whole cycle: it
\* is obtained before the transaction begins and released only when the
\* transaction is resolved and processNowCommitted was emitted.
C14_ProcessNowExcludesPolling ==
  /\ [](\A n \in Nows : \A l \in Loops :
         InCycle(n) /\ InCycle(l) => w[n].job.job_id # w[l].job.job_id)
  /\ [](\A n \in Nows :
         /\ InCycle(n) => w[n].lock = w[n].job.job_id /\ w[n].tx = "open"
         /\ Before(w[n].trace, "obtainLock", "begin")
         /\ Has(w[n].trace, "begin") /\ Has(w[n].trace, "unlock") =>
              /\ w[n].tx \in {"committed", "rolledback", "failed"}
              /\ Before(w[n].trace, "processNowCommitted", "unlock"))
  /\ [][\A n \in Nows :
         w[n].lock # 0 /\ w'[n].lock = 0 =>
           /\ w[n].pc \in {"fetching", "committing", "rollingback"}
           /\ w'[n].tx # "open"]_vars

\* processNow is inside a cycle on a due job, and the loop, polling after that
\* cycle began, found no job
C14_Witness ==
  /\ InCycle("n1") /\ w["w1"].pc = "sleeping"
  /\ w["w1"].wakeAt - DefaultPollInterval > w["n1"].began
  /\ store[w["n1"].job.job_id].due_at # NullVal
  /\ store[w["n1"].job.job_id].due_at <= w["w1"].wakeAt - DefaultPollInterval


\* C15: Jobs.create calls done once and the release function once, on every
\* outcome, and holds no connection afterwards; on success done gets the id of a
\* new row with the given data, due_at derived from the delay (null for a null
\* delay, the time of the write plus the delay otherwise) and no processed_at; when
\* the write fails done gets the error and the Store is unchanged; rows are added
\* by a successful create only.
C15_CreateCompletesOnce ==
  /\ [](\A c \in Creates :
         /\ w[c].dones = (IF w[c].pc = "done" THEN 1 ELSE 0)
         /\ w[c].released = w[c].dones
         /\ w[c].conn = "released" => w[c].pc = "done"
         /\ w[c].pc = "done" =>
              /\ w[c].conn # "held"
              /\ w[c].conn = "none" <=> w[c].doneErr = ConnectionError
              /\ w[c].doneErr = NoErr <=> w[c].jobId # 0)
  /\ [][\A c \in Creates :
         w[c].pc = "writing" /\ w'[c].pc = "done" =>
           \/ /\ w'[c].doneErr = NoErr
              /\ w'[c].jobId = Len(store) + 1
              /\ Len(store') = Len(store) + 1
              /\ \A id \in DOMAIN store : store'[id] = store[id]
              /\ store'[w'[c].jobId] =
                   [data |-> w[c].writeArgs.data,
                    due_at |-> IF w[c].writeArgs.processIn = NullVal THEN NullVal
                               ELSE clock + w[c].writeArgs.processIn,
                    processed_at |-> NullVal]
           \/ /\ w'[c].doneErr = StoreError /\ w'[c].jobId = 0
              /\ store' = store]_vars
  /\ [][Len(store') # Len(store) =>
          \E c \in Creates :
            w[c].pc = "writing" /\ w'[c].pc = "done" /\ w'[c].doneErr = NoErr]_vars

\* a create made after time 0 with delay 0 returned id 1 and released its
\* connection; the row is due at the time of the write
C15_Witness ==
  /\ w["c1"].pc = "done" /\ w["c1"].jobId = 1 /\ w["c1"].doneErr = NoErr
  /\ w["c1"].released = 1 /\ w["c1"].conn = "released"
  /\ store[1].data = "d0" /\ store[1].due_at > 0


\* C16: within one polling loop the cycles are sequential: the loop's transaction
\* is open exactly while its cycle is in flight, an iteration issues one query and
\* begins at most one transaction, the next iteration (and so the next query) is
\* reached from a cycle only by the answer to its commit or rollback, and a
\* transaction is begun only by the answer to the iteration's query.
C16_CyclesAreSequential ==
  /\ [](\A l \in Loops :
         /\ w[l].tx = "open" <=> InCycle(l)
         /\ Count(w[l].trace, "nextToProcess") <= 1
         /\ Count(w[l].trace, "begin") <= 1
         /\ Has(w[l].trace, "begin") /\ ~InCycle(l) =>
              /\ w[l].tx \in {"committed", "rolledback", "failed"}
              /\ Count(w[l].trace, "processCommitted") = 1)
  /\ [][\A l \in Loops :
         w'[l].pc = "query" /\ w[l].pc # "query" =>
           w[l].pc = "immediate" /\ w[l].tx # "open"]_vars
  /\ [][\A l \in Loops :
         InCycle(l) /\ ~InCycle(l)' =>
           /\ w[l].pc \in {"committing", "rollingback"}
           /\ w'[l].tx \in {"committed", "rolledback", "failed"}
           /\ w'[l].pc \in {"immediate", "done"}]_vars
  /\ [][\A l \in Loops :
         w'[l].tx = "open" /\ w[l].tx # "open" =>
           w[l].pc = "query" /\ w[l].tx = "none"]_vars

\* w1, the only loop started, is inside a cycle that began after an earlier cycle
\* on the job had committed
C16_Witness ==
  /\ w["w2"].pc = "idle" /\ w["w1"].pc = "processing"
  /\ store[w["w1"].job.job_id].processed_at # NullVal
  /\ w["w1"].began > store[w["w1"].job.job_id].processed_at


\* C17: a cycle whose commit failed emits no commit notification, and processNow's
\* done is then not called without an error.
C17_FailedCommitFailsCycle ==
  \A p \in Cyclers :
    w[p].tx = "failed" =>
      /\ ~Has(w[p].trace, CommitEvent(p))
      /\ p \in Nows /\ w[p].dones > 0 => w[p].doneErr # NoErr


\* the commit notification of the other entry point
OtherCommitEvent(p) == IF p \in Nows THEN "processCommitted" ELSE "processNowCommitted"

\* C18: a cycle that began a transaction emits its entry point's commit
\* notification exactly once, whether it committed or rolled back: none while the
\* cycle is in flight, one when commit or rollback was answered, emitted after the
\* commit / rollback was issued and before unlock, releaseClient, stopProcess and
\* done; the other entry point's notification is never emitted, and no
\* notification is emitted without a transaction.
C18_OneCommitNotification ==
  /\ [](\A p \in Cyclers :
         /\ ~Has(w[p].trace, OtherCommitEvent(p))
         /\ InCycle(p) \/ ~Has(w[p].trace, "begin") => ~Has(w[p].trace, CommitEvent(p))
         /\ Has(w[p].trace, "begin") /\ ~InCycle(p) =>
              /\ Count(w[p].trace, CommitEvent(p)) = 1
              /\ w[p].tx \in {"committed", "rolledback", "failed"}
              /\ \E ev \in {"commit", "rollback"} : Before(w[p].trace, ev, CommitEvent(p))
              /\ \A ev \in {"unlock", "releaseClient", "stopProcess", "done"} :
                   Before(w[p].trace, CommitEvent(p), ev))
  /\ [][\A p \in Cyclers :
         Has(w'[p].trace, CommitEvent(p)) /\ ~Has(w[p].trace, CommitEvent(p)) =>
           /\ w[p].pc \in {"committing", "rollingback"}
           /\ w[p].dones = 0
           /\ w'[p].tx \in (IF w[p].pc = "rollingback" THEN {"rolledback"}
                           ELSE {"committed", "failed"})]_vars

\* processNow's cycle rolled back and the loop's cycle committed, each with its
\* own notification
C18_Witness ==
  /\ w["n1"].pc = "done" /\ w["n1"].tx = "rolledback"
  /\ Has(w["n1"].trace, "processNowCommitted")
  /\ w["w1"].tx = "committed" /\ Has(w["w1"].trace, "processCommitted")


\* the Store call that claims the job of a cycle
LockEvent(p) == IF p \in Nows THEN "obtainLock" ELSE "nextToProcess"

AtBoundary(l) ==
  \/ w[l].pc = "connecting" /\ w'[l].pc # "connecting" /\ w'[l].conn # "none"
  \/ w[l].pc \in {"sleeping", "committing", "rollingback"} /\ w'[l].pc # w[l].pc

\* C20: shouldStillProcess is one flag for all instances: stopProcessing() clears
\* it for every running loop, process() on any instance sets it (and nothing else
\* does), and at an iteration boundary every loop goes on only if the flag is set
\* at that moment and ends if it is clear, whichever instance set or cleared it
\* last; so a loop asked to stop goes on when another instance called process()
\* before the loop reached its boundary.
C20_SharedContinueFlag ==
  /\ [][\A l \in Loops :
         AtBoundary(l) =>
           /\ w'[l].pc \in {"immediate", "done"}
           /\ w'[l].pc = "immediate" => shouldStillProcess
           /\ ~shouldStillProcess => w'[l].pc = "done" /\ w'[l].stops = 1]_vars
  /\ [][\A l \in Loops :
         w[l].pc = "idle" /\ w'[l].pc # "idle" => shouldStillProcess']_vars
  /\ [][~shouldStillProcess /\ shouldStillProcess' =>
          \E l \in Loops : w[l].pc = "idle" /\ w'[l].pc = "connecting"]_vars
  /\ [][shouldStillProcess /\ ~shouldStillProcess' =>
          \A l \in Loops :
            w[l].pc \notin {"idle", "done"} => w'[l].stopAt # "no"]_vars

\* w1 was asked to stop during a cycle, w2's process() came before the cycle ended,
\* and w1 went on to a next iteration
C20_Witness ==
  /\ w["w1"].stopAt = "cycle" /\ w["w1"].pc = "immediate"
  /\ w["w2"].pc # "idle" /\ w["w2"].stopAt = "no"

====
